---- MODULE Spec2Model ----
(***************************************************************************)
(* Model of src/src/nfc/clf/transport.py: the serial (TTY) and USB         *)
(* transports and the device-path resolvers TTY.find / USB.find.           *)
(*                                                                         *)
(* A transport handle is an instance of one of the two classes; `kind`     *)
(* says which.  OS/driver resources (an opened serial.Serial, an opened    *)
(* USBDeviceHandle) are numbered 1..nres in the order they are acquired;   *)
(* closes[i] counts the close() calls made on resource i.  `calls` is the  *)
(* list of library calls the last step made and `ret` its outcome.          *)
(*                                                                         *)
(* The resolvers are functions of the path string, of what the host lists  *)
(* (`listing`: os.listdir('/dev'), `devices`: the USB device list) and of  *)
(* which nodes cannot be opened or queried (`denied`); `result` is what    *)
(* find returned.  Strings are sequences of one-character strings.         *)
(***************************************************************************)
EXTENDS Integers, Sequences, FiniteSets, TLC

VARIABLES kind, tty, baud, rx, loop, usb_dev, usb_inp, usb_out, names,
          nres, closes, calls, ret,
          path, listing, denied, devices, result

vars == <<kind, tty, baud, rx, loop, usb_dev, usb_inp, usb_out, names,
          nres, closes, calls, ret, path, listing, denied, devices, result>>

\* the transport handle
hvars == <<kind, tty, baud, rx, loop, usb_dev, usb_inp, usb_out, names, nres, closes, calls, ret>>

\* the resolver's input and result
fvars == <<path, listing, denied, devices, result>>

(* ------------------------------ bounds --------------------------------- *)
\* resources one handle acquires in a run
MaxOpens == 2
\* bytes the serial line buffers
MaxRx == 12
\* largest LEN byte of the normal frames the device sends
MaxLEN == 2
\* largest extended length of the extended frames the device sends
MaxExt == 1

(* ------------------------------ helpers -------------------------------- *)
Min(a, b) == IF a < b THEN a ELSE b

Take(s, n) == SubSeq(s, 1, Min(n, Len(s)))

Drop(s, n) == SubSeq(s, Min(n, Len(s)) + 1, Len(s))

\* a library call: its name, its arguments a and b, the bytes it returned
\* and how it ended
Call(fn, a, b, got, out) == [fn |-> fn, a |-> a, b |-> b, got |-> got, out |-> out]

Ret(op, st, errno, frame) == [op |-> op, st |-> st, errno |-> errno, frame |-> frame]

NoRet == Ret("none", "none", "", <<>>)

(* --------------------------- serial frames ----------------------------- *)
\* b"\x00\x00\xff\x00\xff\x00"
ACK == <<0, 0, 255, 0, 255, 0>>

\* bytes of the first read
HDR == 6

\* bytes of the extended-length read
EXT == 3

\* the extended-length escape
ESC == 255

\* `frame is None or len(frame) == 0`
IsTimeout_Never(frame) == FALSE

IsTimeout(frame) == Len(frame) = 0

\* `frame.startswith(ACK)`: the frame holds at most HDR bytes here
IsAck_Never(frame) == FALSE

IsAck(frame) == Len(frame) >= Len(ACK) /\ SubSeq(frame, 1, Len(ACK)) = ACK

\* `LEN + 1`: the bytes of the last read
Rest_NoChecksum(LEN) == LEN

Rest(LEN) == LEN + 1

\* `frame[5] << 8 | frame[6]` (0-based indices)
ExtLen(frame) == frame[6] * 256 + frame[7]

ReadOut(st, errno, frame, cs) == [st |-> st, errno |-> errno, frame |-> frame, calls |-> cs]

(* TTY.read on an open port whose input buffer holds buf: tty.read(n)      *)
(* returns the bytes that are there when it gives up waiting, at most n.   *)
(* The result is the frame read so far, also when frame[3], frame[5] or    *)
(* frame[6] is read past its end (IndexError).                             *)
ReadFrame(buf) ==
    LET f1 == Take(buf, HDR)
        c1 == <<Call("read", HDR, 0, Len(f1), "ok")>>
    IN  IF IsTimeout(f1) THEN ReadOut("err", "ETIMEDOUT", <<>>, c1)
        ELSE IF IsAck(f1) THEN ReadOut("ok", "", f1, c1)
        ELSE IF Len(f1) < 4 THEN ReadOut("crash", "IndexError", f1, c1)
        ELSE IF f1[4] = ESC
        THEN LET f2 == Take(buf, HDR + EXT)
                 c2 == Append(c1, Call("read", EXT, 0, Len(f2) - Len(f1), "ok"))
             IN  IF Len(f2) < 7 THEN ReadOut("crash", "IndexError", f2, c2)
                 ELSE LET n3 == Rest(ExtLen(f2))
                          f3 == Take(buf, Len(f2) + n3)
                      IN  ReadOut("ok", "", f3, Append(c2, Call("read", n3, 0, Len(f3) - Len(f2), "ok")))
        ELSE LET n3 == Rest(f1[4])
                 f3 == Take(buf, Len(f1) + n3)
             IN  ReadOut("ok", "", f3, Append(c1, Call("read", n3, 0, Len(f3) - Len(f1), "ok")))

(* ------------------------- what the line carries ----------------------- *)
\* n payload bytes
Fill(n) == [i \in 1..n |-> 213]

\* their checksum byte
Chk(n) == (256 - ((n * 213) % 256)) % 256

\* a reader's normal frame: 00 00 FF LEN LCS data[LEN] DCS 00
NormalFrame(len) ==
    <<0, 0, 255, len, (256 - len) % 256>> \o Fill(len) \o <<Chk(len), 0>>

\* a reader's extended frame: 00 00 FF FF FF LENM LENL LCS data[LEN] DCS 00
ExtFrame(len) ==
    <<0, 0, 255, 255, 255, len \div 256, len % 256, (512 - (len \div 256) - (len % 256)) % 256>>
        \o Fill(len) \o <<Chk(len), 0>>

Frames == {ACK} \cup {NormalFrame(n) : n \in 0..MaxLEN} \cup {ExtFrame(n) : n \in 0..MaxExt}

\* what is written to the line: whole frames and frames cut short
Chunks == {Take(f, n) : f \in Frames, n \in 0..MaxRx}

\* what the reader sends in one burst: a frame, whole or cut short, or a frame
\* and what follows it
Bursts == {Take(f \o g, n) : f \in Frames, g \in Frames, n \in 1..MaxRx}

(* ----------------------------- class TTY ------------------------------- *)
\* TTY.close: flushOutput(), close(), tty = None when a port is held
TTYCloseCalls(h) ==
    IF h /= 0 THEN <<Call("flushOutput", h, 0, 0, "ok"), Call("close", h, 0, 0, "ok")>>
    ELSE <<>>

\* the close() calls each resource has had, after one more on h
Released(cl, h) == IF h /= 0 THEN [cl EXCEPT ![h] = @ + 1] ELSE cl

\* `self.tty = None` at the end of TTY.close
TTYAfterClose_Keep(h) == h

TTYAfterClose(h) == 0

\* baudrate=115200, the rate TTY.open gives a port
DefaultBaud == 115200

\* rates the baudrate setter is given
Bauds == {9600, DefaultBaud}

\* TTY.open(port): close(), then tty = serial.Serial(port, baudrate, timeout=0.05)
TTYOpen(ok) ==
    /\ kind = "TTY"
    /\ nres < MaxOpens
    /\ IF ok
       THEN /\ nres' = nres + 1
            /\ tty' = nres + 1
            /\ closes' = Append(Released(closes, tty), 0)
            /\ calls' = Append(TTYCloseCalls(tty), Call("Serial", nres + 1, 0, 0, "ok"))
            /\ ret' = Ret("open", "ok", "", <<>>)
       ELSE /\ nres' = nres
            /\ tty' = TTYAfterClose(tty)
            /\ closes' = Released(closes, tty)
            /\ calls' = Append(TTYCloseCalls(tty), Call("Serial", 0, 0, 0, "SerialException"))
            /\ ret' = Ret("open", "err", "SerialException", <<>>)
    /\ baud' = IF ok THEN DefaultBaud ELSE 0
    /\ rx' = <<>>
    /\ UNCHANGED <<kind, loop, usb_dev, usb_inp, usb_out, names>>
    /\ UNCHANGED fvars

\* TTY.close
TTYClose ==
    /\ kind = "TTY"
    /\ tty' = TTYAfterClose(tty)
    /\ closes' = Released(closes, tty)
    /\ calls' = TTYCloseCalls(tty)
    /\ ret' = Ret("close", "none", "", <<>>)
    /\ baud' = 0
    /\ rx' = <<>>
    /\ UNCHANGED <<kind, loop, usb_dev, usb_inp, usb_out, names, nres>>
    /\ UNCHANGED fvars

\* TTY.read(timeout)
TTYRead ==
    /\ kind = "TTY"
    /\ IF tty /= 0
       THEN LET r == ReadFrame(rx)
            IN  /\ rx' = Drop(rx, Len(r.frame))
                /\ calls' = r.calls
                /\ ret' = Ret("read", r.st, r.errno, r.frame)
       ELSE /\ rx' = rx
            /\ calls' = <<>>
            /\ ret' = Ret("read", "none", "", <<>>)
    /\ UNCHANGED <<kind, baud, tty, loop, usb_dev, usb_inp, usb_out, names, nres, closes>>
    /\ UNCHANGED fvars

\* str(frame) of a bytearray, as Python 2 converts it: the same bytes
Str(frame) == frame

\* what the input buffer holds after flushInput() and write(frame): on a
\* loopback line the bytes written come back
RxAfterWrite_FlushLast(frame, written) == <<>>

RxAfterWrite_NoFlush(frame, written) == IF loop /\ written THEN rx \o Str(frame) ELSE rx

RxAfterWrite(frame, written) == IF loop /\ written THEN Str(frame) ELSE <<>>

\* TTY.write(frame)
TTYWrite(frame, wr) ==
    /\ kind = "TTY"
    /\ IF tty /= 0
       THEN /\ rx' = RxAfterWrite(frame, wr = "ok")
            /\ calls' = <<Call("flushInput", 0, 0, 0, "ok"), Call("write", Len(frame), 0, 0, wr)>>
            /\ ret' = IF wr = "ok" THEN Ret("write", "none", "", frame)
                      ELSE Ret("write", "err", "EIO", frame)
       ELSE /\ rx' = rx
            /\ calls' = <<>>
            /\ ret' = Ret("write", "none", "", frame)
    /\ UNCHANGED <<kind, baud, tty, loop, usb_dev, usb_inp, usb_out, names, nres, closes>>
    /\ UNCHANGED fvars

\* the reader sends a burst of bytes on an idle line; the input buffer is
\* the open port's, and goes with it
DeviceSend(burst) ==
    /\ kind = "TTY"
    /\ tty /= 0
    /\ ~loop
    /\ rx = <<>>
    /\ rx' = burst
    /\ calls' = <<>>
    /\ ret' = Ret("send", "none", "", <<>>)
    /\ UNCHANGED <<kind, baud, tty, loop, usb_dev, usb_inp, usb_out, names, nres, closes>>
    /\ UNCHANGED fvars

\* TTY.port: `self.tty.port if self.tty else ''`; the port's name is the
\* one-element string of the resource's number
Port(h) == IF h /= 0 THEN <<h>> ELSE <<>>

\* TTY.baudrate: `self.tty.baudrate if self.tty else 0`
Baudrate_Default(h, b) == IF h /= 0 THEN b ELSE DefaultBaud

Baudrate(h, b) == IF h /= 0 THEN b ELSE 0

\* reading TTY.port; the value read is ret.frame
TTYPort ==
    /\ kind = "TTY"
    /\ calls' = <<>>
    /\ ret' = Ret("port", "ok", "", Port(tty))
    /\ UNCHANGED <<kind, baud, tty, rx, loop, usb_dev, usb_inp, usb_out, names, nres, closes>>
    /\ UNCHANGED fvars

\* reading TTY.baudrate; the value read is the one element of ret.frame
TTYBaudrate ==
    /\ kind = "TTY"
    /\ calls' = <<>>
    /\ ret' = Ret("baudrate", "ok", "", <<Baudrate(tty, baud)>>)
    /\ UNCHANGED <<kind, baud, tty, rx, loop, usb_dev, usb_inp, usb_out, names, nres, closes>>
    /\ UNCHANGED fvars

\* TTY.baudrate = value
TTYSetBaudrate(value) ==
    /\ kind = "TTY"
    /\ baud' = IF tty /= 0 THEN value ELSE baud
    /\ calls' = <<>>
    /\ ret' = Ret("set_baudrate", "none", "", <<>>)
    /\ UNCHANGED <<kind, tty, rx, loop, usb_dev, usb_inp, usb_out, names, nres, closes>>
    /\ UNCHANGED fvars

(* ----------------------------- class USB ------------------------------- *)
\* libusb.ENDPOINT_DIR_MASK, ENDPOINT_IN, ENDPOINT_OUT
ENDPOINT_DIR_MASK == 128

ENDPOINT_IN == 128

ENDPOINT_OUT == 0

\* libusb.TRANSFER_TYPE_MASK, TRANSFER_TYPE_BULK
TRANSFER_TYPE_MASK == 3

TRANSFER_TYPE_BULK == 2

\* the size bulkRead asks for
READ_MAX == 300

\* x & mask for the two masks used (a single bit, and the low bits)
BitAnd(x, mask) ==
    IF mask = ENDPOINT_DIR_MASK THEN ((x \div mask) % 2) * mask ELSE x % (mask + 1)

transfer_type(x) == BitAnd(x, TRANSFER_TYPE_MASK)

endpoint_dir(x) == BitAnd(x, ENDPOINT_DIR_MASK)

EP(addr, attr, mps) == [addr |-> addr, attr |-> attr, mps |-> mps]

\* usb_inp / usb_out = None
None == EP(-1, 0, 0)

\* the endpoints a first interface setting may list: bulk IN 0x81 and 0x82,
\* bulk OUT 0x01 and 0x02, interrupt IN 0x83
Endpoints == {EP(129, 2, 2), EP(130, 2, 3), EP(1, 2, 2), EP(2, 2, 3), EP(131, 3, 2)}

\* endpoints per setting
MaxEps == 2

\* the endpoints of a setting with a single bulk IN endpoint: bulk IN 0x81,
\* bulk OUT 0x01 and 0x02, interrupt IN 0x83
PlainEndpoints == Endpoints \ {EP(130, 2, 3)}

EndpointLists ==
    UNION {{e \in [1..n -> PlainEndpoints] : \A i, j \in 1..n : i /= j => e[i] /= e[j]} : n \in 0..MaxEps}

\* the loop over first_setting.iterEndpoints(): the first bulk endpoint of direction dir
RECURSIVE FirstBulk_Last(_, _)
FirstBulk_Last(eps, dir) ==
    IF eps = <<>> THEN None
    ELSE LET e == eps[Len(eps)]
         IN  IF transfer_type(e.attr) = TRANSFER_TYPE_BULK /\ endpoint_dir(e.addr) = dir
             THEN e ELSE FirstBulk_Last(SubSeq(eps, 1, Len(eps) - 1), dir)

RECURSIVE FirstBulk(_, _)
FirstBulk(eps, dir) ==
    IF eps = <<>> THEN None
    ELSE IF transfer_type(eps[1].attr) = TRANSFER_TYPE_BULK /\ endpoint_dir(eps[1].addr) = dir
    THEN eps[1]
    ELSE FirstBulk(Tail(eps), dir)

\* the IOError a libusb error during dev.open() / claimInterface(0) becomes
OpenErrno(e) ==
    CASE e = "access" -> "EACCES"
      [] e = "busy" -> "EBUSY"
      [] e = "nodev" -> "ENODEV"
      [] OTHER -> "USBError"

\* the IOError a libusb error during a bulk transfer becomes
XferErrno_Generic(e) == "EIO"

XferErrno(e) ==
    CASE e = "timeout" -> "ETIMEDOUT"
      [] e = "nodev" -> "ENODEV"
      [] OTHER -> "EIO"

Outcomes == {"ok", "access", "busy", "nodev", "other"}

XferOutcomes == {"ok", "timeout", "nodev", "other"}

(* USB.open(usb_bus, dev_adr).  A scenario w says what the host meets:      *)
(* w.found: a listed device has this bus and address; w.setting: it has a   *)
(* first interface setting, which lists eps; w.desc: how reading the        *)
(* descriptor strings ends ("io" a USBErrorIO, "other" any other libusb     *)
(* error); w.op, w.cl: how dev.open() and claimInterface(0) end.  The       *)
(* result is the handle's new fields.                                       *)
World(found, setting, desc, op, cl) ==
    [found |-> found, setting |-> setting, desc |-> desc, op |-> op, cl |-> cl]

\* the ways USB.open can go: no such device, no setting, each failure of
\* the descriptor read, of dev.open() and of claimInterface(0), and none
Worlds ==
    {World(FALSE, TRUE, "ok", "ok", "ok"), World(TRUE, FALSE, "ok", "ok", "ok")}
    \cup {World(TRUE, TRUE, d, "ok", "ok") : d \in {"ok", "io", "other"}}
    \cup {World(TRUE, TRUE, "ok", o, "ok") : o \in Outcomes}
    \cup {World(TRUE, TRUE, "ok", "ok", c) : c \in Outcomes}

OpenOut(st, errno, dev, inp, out, nm, cs) ==
    [st |-> st, errno |-> errno, dev |-> dev, inp |-> inp, out |-> out, names |-> nm, calls |-> cs]

UsbOpen(w, eps) ==
    LET found == w.found
        setting == w.setting
        desc == w.desc
        op == w.op
        cl == w.cl
        inp == FirstBulk(eps, ENDPOINT_IN)
        out == FirstBulk(eps, ENDPOINT_OUT)
        new == nres + 1
        it == <<Call("iterEndpoints", eps, 0, Len(eps), "ok")>>
        rd == Append(it, Call("getManufacturer", 0, 0, 0, desc))
    IN  IF ~found \/ ~setting THEN OpenOut("err", "ENODEV", 0, None, None, names, <<>>)
        ELSE IF inp = None \/ out = None THEN OpenOut("err", "ENODEV", 0, inp, out, names, it)
        ELSE IF desc = "other" THEN OpenOut("err", "USBError", 0, inp, out, names, rd)
        ELSE LET nm == IF desc = "ok" THEN "set" ELSE "none"
             IN  IF op /= "ok"
                 THEN OpenOut("err", OpenErrno(op), 0, inp, out, nm, Append(rd, Call("open", 0, 0, 0, op)))
                 ELSE IF cl /= "ok"
                 THEN OpenOut("err", OpenErrno(cl), new, inp, out, nm,
                              rd \o <<Call("open", new, 0, 0, "ok"),
                                      Call("claimInterface", new, 0, 0, cl)>>)
                 ELSE OpenOut("ok", "", new, inp, out, nm,
                              rd \o <<Call("open", new, 0, 0, "ok"),
                                      Call("claimInterface", new, 0, 0, "ok")>>)

USBOpen(w, eps) ==
    /\ kind = "USB"
    /\ nres < MaxOpens
    /\ (~w.found \/ ~w.setting) => eps = <<>>
    /\ LET r == UsbOpen(w, eps)
       IN  /\ usb_dev' = r.dev
           /\ usb_inp' = r.inp
           /\ usb_out' = r.out
           /\ names' = r.names
           /\ nres' = IF r.dev /= 0 THEN nres + 1 ELSE nres
           /\ closes' = IF r.dev /= 0 THEN Append(closes, 0) ELSE closes
           /\ calls' = r.calls
           /\ ret' = Ret("open", r.st, r.errno, <<>>)
    /\ UNCHANGED <<kind, baud, tty, rx, loop>>
    /\ UNCHANGED fvars

\* USB.close
USBClose ==
    /\ kind = "USB"
    /\ usb_dev' = 0
    /\ usb_inp' = None
    /\ usb_out' = None
    /\ closes' = Released(closes, usb_dev)
    /\ calls' = IF usb_dev /= 0 THEN <<Call("close", usb_dev, 0, 0, "ok")>> ELSE <<>>
    /\ ret' = Ret("close", "none", "", <<>>)
    /\ UNCHANGED <<kind, baud, tty, rx, loop, names, nres>>
    /\ UNCHANGED fvars

\* `len(frame) == 0` after a bulk read that raised nothing
IsEmptyRead_Never(n) == FALSE

IsEmptyRead(n) == n = 0

(* USB.read(timeout).  e is how bulkRead(ep_addr, 300, timeout) ends and n  *)
(* the size of the packet the device has ready; a packet larger than the    *)
(* size asked for is libusb's overflow error.                               *)
UsbRead(e, n) ==
    IF usb_dev = 0 THEN ReadOut("crash", "AttributeError", <<>>, <<>>)
    ELSE LET rd(got, out) == <<Call("bulkRead", usb_inp.addr, READ_MAX, got, out)>>
         IN  IF e /= "ok" THEN ReadOut("err", XferErrno(e), <<>>, rd(0, e))
             ELSE IF n > READ_MAX THEN ReadOut("err", XferErrno("overflow"), <<>>, rd(0, "overflow"))
             ELSE IF IsEmptyRead(n) THEN ReadOut("err", "EIO", <<>>, rd(n, "ok"))
             ELSE ReadOut("ok", "", Fill(n), rd(n, "ok"))

USBRead(e, n) ==
    /\ kind = "USB"
    /\ IF usb_inp /= None
       THEN LET r == UsbRead(e, n)
            IN  /\ calls' = r.calls
                /\ ret' = Ret("read", r.st, r.errno, r.frame)
       ELSE /\ calls' = <<>>
            /\ ret' = Ret("read", "none", "", <<>>)
    /\ UNCHANGED <<kind, baud, tty, rx, loop, usb_dev, usb_inp, usb_out, names, nres, closes>>
    /\ UNCHANGED fvars

\* `len(frame) % self.usb_out.getMaxPacketSize() == 0`
NeedsZLP_Never(n, mps) == FALSE

NeedsZLP(n, mps) == n % mps = 0

(* USB.write(frame, timeout).  e1 and e2 are how the bulkWrite of the frame *)
(* and the bulkWrite of b'' end.                                            *)
UsbWrite(frame, e1, e2) ==
    IF usb_dev = 0 THEN ReadOut("crash", "AttributeError", frame, <<>>)
    ELSE LET w1 == <<Call("bulkWrite", usb_out.addr, Len(frame), 0, e1)>>
             w2 == Append(w1, Call("bulkWrite", usb_out.addr, 0, 0, e2))
         IN  IF e1 /= "ok" THEN ReadOut("err", XferErrno(e1), frame, w1)
             ELSE IF ~NeedsZLP(Len(frame), usb_out.mps) THEN ReadOut("none", "", frame, w1)
             ELSE IF e2 /= "ok" THEN ReadOut("err", XferErrno(e2), frame, w2)
             ELSE ReadOut("none", "", frame, w2)

USBWrite(frame, e1, e2) ==
    /\ kind = "USB"
    /\ IF usb_out /= None
       THEN LET r == UsbWrite(frame, e1, e2)
            IN  /\ calls' = r.calls
                /\ ret' = Ret("write", r.st, r.errno, r.frame)
       ELSE /\ calls' = <<>>
            /\ ret' = Ret("write", "none", "", frame)
    /\ UNCHANGED <<kind, baud, tty, rx, loop, usb_dev, usb_inp, usb_out, names, nres, closes>>
    /\ UNCHANGED fvars

(* ------------------------------ strings -------------------------------- *)
Digits == {"0", "1", "2", "3", "4", "5", "6", "7", "8", "9"}

Lower == {"a", "b", "c", "d", "e", "f", "g", "h", "i", "j", "k", "l", "m",
          "n", "o", "p", "q", "r", "s", "t", "u", "v", "w", "x", "y", "z"}

Upper == {"A", "B", "C", "D", "E", "F", "G", "H", "I", "J", "K", "L", "M",
          "N", "O", "P", "Q", "R", "S", "T", "U", "V", "W", "X", "Y", "Z"}

Alnum == Lower \cup Upper \cup Digits

\* the characters used, in the order of their codes
Chars == <<" ", "/", "0", "1", "2", "3", "4", "5", "6", "7", "8", "9", ":",
           "A", "B", "C", "D", "E", "F", "G", "H", "I", "J", "K", "L", "M",
           "N", "O", "P", "Q", "R", "S", "T", "U", "V", "W", "X", "Y", "Z",
           "a", "b", "c", "d", "e", "f", "g", "h", "i", "j", "k", "l", "m",
           "n", "o", "p", "q", "r", "s", "t", "u", "v", "w", "x", "y", "z">>

Ord(c) == CHOOSE i \in 1..Len(Chars) : Chars[i] = c

\* a < b as Python compares str
RECURSIVE StrLess(_, _)
StrLess(a, b) ==
    IF b = <<>> THEN FALSE
    ELSE IF a = <<>> THEN TRUE
    ELSE IF a[1] /= b[1] THEN Ord(a[1]) < Ord(b[1])
    ELSE StrLess(Tail(a), Tail(b))

StartsWith(str, pfx) == Len(str) >= Len(pfx) /\ SubSeq(str, 1, Len(pfx)) = pfx

\* how many characters of str from position i on are in class
RECURSIVE Run(_, _, _)
Run(str, i, class) ==
    IF i <= Len(str) /\ str[i] \in class THEN 1 + Run(str, i + 1, class) ELSE 0

NonDigits == (Alnum \cup {":", "/", " "}) \ Digits

\* ^\D+\d+$
IsNameNumber(str) ==
    LET k == Run(str, 1, NonDigits)
    IN  k >= 1 /\ k < Len(str) /\ Run(str, k + 1, Digits) = Len(str) - k

\* ^\D+$
IsName(str) == Len(str) >= 1 /\ Run(str, 1, NonDigits) = Len(str)

\* ^\d+$
IsNumber(str) == Len(str) >= 1 /\ Run(str, 1, Digits) = Len(str)

(* PATH = ^([a-z]+)(?::|)([a-zA-Z0-9]+|)(?::|)([a-zA-Z0-9]+|)$ as          *)
(* re.match applies it: each group takes the longest run it can, a colon   *)
(* is taken where there is one, and no shorter choice matches a string the *)
(* longest choices do not.  ok is whether the path matches.                *)
PathMatch(str) ==
    LET n1 == Run(str, 1, Lower)
        i2 == IF n1 < Len(str) /\ str[n1 + 1] = ":" THEN n1 + 2 ELSE n1 + 1
        n2 == Run(str, i2, Alnum)
        j3 == i2 + n2
        i3 == IF j3 <= Len(str) /\ str[j3] = ":" THEN j3 + 1 ELSE j3
        n3 == Run(str, i3, Alnum)
    IN  [ok |-> n1 >= 1 /\ i3 + n3 = Len(str) + 1,
         g1 |-> SubSeq(str, 1, n1),
         g2 |-> SubSeq(str, i2, i2 + n2 - 1),
         g3 |-> SubSeq(str, i3, i3 + n3 - 1)]

(* ------------------------------ TTY.find ------------------------------- *)
tty_ == <<"t", "t", "y">>

com_ == <<"c", "o", "m">>

COM_ == <<"C", "O", "M">>

dev_ == <<"/", "d", "e", "v", "/">>

\* S|ACM|AMA|USB
DefaultNames == {<<"S">>, <<"A", "C", "M">>, <<"A", "M", "A">>, <<"U", "S", "B">>}

\* the pattern TTYS a selector gives: ^tty<sel>$, ^tty<sel>\d+$ or
\* ^tty(S|ACM|AMA|USB)\d+$, and none for a selector that starts with a digit
\* or has a digit before a letter
TTYS(sel) ==
    IF IsNameNumber(sel) THEN [form |-> "exact", name |-> sel]
    ELSE IF IsName(sel) THEN [form |-> "numbered", name |-> sel]
    ELSE IF sel = <<>> THEN [form |-> "default", name |-> <<>>]
    ELSE [form |-> "invalid", name |-> sel]

\* TTYS.match(fn)
TTYSMatch(pat, fn) ==
    CASE pat.form = "exact" -> fn = tty_ \o pat.name
      [] pat.form = "numbered" ->
            /\ StartsWith(fn, tty_ \o pat.name)
            /\ IsNumber(SubSeq(fn, Len(pat.name) + 4, Len(fn)))
      [] pat.form = "default" ->
            \E nm \in DefaultNames :
                /\ StartsWith(fn, tty_ \o nm)
                /\ IsNumber(SubSeq(fn, Len(nm) + 4, Len(fn)))
      [] OTHER -> FALSE

\* TTYS.pattern.endswith(r'\d+$')
EndsWithDigits_Never(pat) == FALSE

EndsWithDigits_Always(pat) == TRUE

EndsWithDigits(pat) == pat.form \in {"numbered", "default"}

\* "%s%3s" % re.compile('(\D+)(\d+)').match(s).groups(): the name and, right
\* justified in three columns, the number that follows it
SortKey(fn) ==
    LET k == Run(fn, 1, NonDigits)
        n == Run(fn, k + 1, Digits)
    IN  SubSeq(fn, 1, k) \o [i \in 1..(IF n < 3 THEN 3 - n ELSE 0) |-> " "]
            \o SubSeq(fn, k + 1, k + n)

\* list.sort(key=...): stable, ascending by key
RECURSIVE InsertByKey(_, _)
InsertByKey(sorted, fn) ==
    IF sorted = <<>> THEN <<fn>>
    ELSE IF StrLess(SortKey(fn), SortKey(sorted[1])) THEN <<fn>> \o sorted
    ELSE <<sorted[1]>> \o InsertByKey(Tail(sorted), fn)

RECURSIVE SortByKey(_)
SortByKey(strs) ==
    IF strs = <<>> THEN <<>>
    ELSE InsertByKey(SortByKey(SubSeq(strs, 1, Len(strs) - 1)), strs[Len(strs)])

Found(st, ttys, sel2, glob) == [st |-> st, ttys |-> ttys, sel2 |-> sel2, glob |-> glob]

\* find returned None
NoFind == Found("none", <<>>, <<>>, FALSE)

\* find has not been called
NotCalled == Found("init", <<>>, <<>>, FALSE)

\* every node can be opened and queried
NoneDenied == [io |-> {}, err |-> {}]

(* The tty branch of TTY.find for selector sel and second selector sel2.   *)
(* ls is os.listdir('/dev'); bad.io are the nodes open() fails on with an  *)
(* IOError and bad.err the nodes tcgetattr fails on with termios.error.    *)
FindTty(sel, sel2, ls, bad) ==
    LET pat == TTYS(sel)
        match(fn) == TTYSMatch(pat, fn)
        ttys == SortByKey(SelectSeq(ls, match))
        raises == \E i \in 1..Len(ttys) : ttys[i] \in bad.io /\ ~EndsWithDigits(pat)
        probed == [i \in 1..Len(ttys) |->
                     IF ttys[i] \in bad.io \cup bad.err THEN ttys[i] ELSE dev_ \o ttys[i]]
        avail(fn) == StartsWith(fn, dev_)
    IN  IF pat.form = "invalid" THEN NoFind
        ELSE IF Len(ttys) = 0 THEN NoFind
        ELSE IF raises THEN Found("IOError", <<>>, <<>>, FALSE)
        ELSE Found("ok", SelectSeq(probed, avail), sel2, EndsWithDigits(pat))

\* the com branch: ports is what serial.tools.list_ports.comports() lists
FindCom(sel, sel2, ports) ==
    IF StartsWith(sel, COM_) /\ IsNumber(SubSeq(sel, 4, Len(sel)))
    THEN Found("ok", <<sel>>, sel2, FALSE)
    ELSE IF IsNumber(sel) THEN Found("ok", <<COM_ \o sel>>, sel2, FALSE)
    ELSE IF sel = <<>> THEN Found("ok", ports, sel2, TRUE)
    ELSE NoFind

\* TTY.find(path)
TtyFind(str, ls, bad) ==
    LET m == PathMatch(str)
    IN  IF ~(StartsWith(str, tty_) \/ StartsWith(str, com_)) THEN NoFind
        ELSE IF m.ok /\ m.g1 = tty_ THEN FindTty(m.g2, m.g3, ls, bad)
        ELSE IF m.ok /\ m.g1 = com_ THEN FindCom(m.g2, m.g3, ls)
        ELSE NoFind

\* a call of TTY.find
TTYFind ==
    /\ result' = TtyFind(path, listing, denied)
    /\ UNCHANGED <<path, listing, denied, devices>>
    /\ UNCHANGED hvars

(* ------------------------------ USB.find ------------------------------- *)
usb_ == <<"u", "s", "b">>

\* [0-9a-fA-F]
HexDigits == Digits \cup {"a", "b", "c", "d", "e", "f", "A", "B", "C", "D", "E", "F"}

\* the value of one digit in int(s, 16)
HexDigit(c) ==
    IF c \in Digits THEN Ord(c) - Ord("0")
    ELSE IF c \in Lower THEN 10 + Ord(c) - Ord("a")
    ELSE 10 + Ord(c) - Ord("A")

\* int(s, base) of a string of digits of that base
RECURSIVE ToInt(_, _)
ToInt(ds, base) ==
    IF ds = <<>> THEN 0
    ELSE base * ToInt(SubSeq(ds, 1, Len(ds) - 1), base) + HexDigit(ds[Len(ds)])

\* ^usb(:C{lo,hi})(:C{lo,hi})?$ for a character class C: ok is whether str
\* matches, g1 and g2 are the groups without their colons (g2 empty when the
\* second group did not take part)
UsbMatch(str, class, lo, hi) ==
    LET n1 == Run(str, 5, class)
        n2 == Run(str, 6 + n1, class)
        one == Len(str) = 4 + n1
        two == Len(str) = 5 + n1 + n2 /\ str[5 + n1] = ":" /\ n2 >= lo /\ n2 <= hi
    IN  [ok |-> /\ StartsWith(str, usb_ \o <<":">>)
                /\ n1 >= lo /\ n1 <= hi
                /\ (one \/ two),
         g1 |-> SubSeq(str, 5, 4 + n1),
         g2 |-> IF one THEN <<>> ELSE SubSeq(str, 6 + n1, 5 + n1 + n2)]

\* a field the path does not give (match.get(...) is None)
NoField == -1

Selector(vid, pid, bus, adr) == [vid |-> vid, pid |-> pid, bus |-> bus, adr |-> adr]

\* the fields of a matched group pair: [int(s.strip(':'), base) for s in m.groups() if s]
Field(g, base) == IF g = <<>> THEN NoField ELSE ToInt(g, base)

\* the device filters of USB.find: each field that is not None must be equal
Matches_NoPid(d, sel) ==
    /\ sel.vid /= NoField => d.vid = sel.vid
    /\ sel.bus /= NoField => d.bus = sel.bus
    /\ sel.adr /= NoField => d.adr = sel.adr

Matches(d, sel) ==
    /\ sel.vid /= NoField => d.vid = sel.vid
    /\ sel.pid /= NoField => d.pid = sel.pid
    /\ sel.bus /= NoField => d.bus = sel.bus
    /\ sel.adr /= NoField => d.adr = sel.adr

Device(vid, pid, bus, adr) == [vid |-> vid, pid |-> pid, bus |-> bus, adr |-> adr]

\* (d.getVendorID(), d.getProductID(), d.getBusNumber(), d.getDeviceAddress())
Tuple(d) == <<d.vid, d.pid, d.bus, d.adr>>

UsbFound(st, devs) == [st |-> st, devs |-> devs]

\* USB.find(path) with devs = context.getDeviceList(skip_on_error=True)
UsbFind(str, devs) ==
    LET vp == UsbMatch(str, HexDigits, 4, 4)
        bd == UsbMatch(str, Digits, 1, 3)
        sel == IF vp.ok THEN Selector(Field(vp.g1, 16), Field(vp.g2, 16), NoField, NoField)
               ELSE IF bd.ok THEN Selector(NoField, NoField, Field(bd.g1, 10), Field(bd.g2, 10))
               ELSE Selector(NoField, NoField, NoField, NoField)
        keep(d) == Matches(d, sel)
        kept == SelectSeq(devs, keep)
    IN  IF ~StartsWith(str, usb_) THEN UsbFound("none", <<>>)
        ELSE IF ~(vp.ok \/ bd.ok \/ str = usb_) THEN UsbFound("none", <<>>)
        ELSE UsbFound("ok", [i \in 1..Len(kept) |-> Tuple(kept[i])])

\* a call of USB.find
USBFind ==
    /\ result' = UsbFind(path, devices)
    /\ UNCHANGED <<path, listing, denied, devices>>
    /\ UNCHANGED hvars

(* ---------------------------- specification ---------------------------- *)
\* largest frame written to a USB handle
MaxFrame == 4

PacketSizes == {0, 1, 2, READ_MAX - 1, READ_MAX, READ_MAX + 1}

\* the handle as __init__ leaves it: open(...) has succeeded once
Init ==
    /\ kind \in {"TTY", "USB"}
    /\ rx = <<>>
    /\ nres = 1
    /\ closes = <<0>>
    /\ calls = <<>>
    /\ ret = Ret("open", "ok", "", <<>>)
    /\ path = <<>> /\ listing = <<>> /\ denied = NoneDenied /\ devices = <<>>
    /\ result = NotCalled
    /\ IF kind = "TTY"
       THEN /\ tty = 1
            /\ baud = DefaultBaud
            /\ loop \in BOOLEAN
            /\ usb_dev = 0 /\ usb_inp = None /\ usb_out = None /\ names = "unset"
       ELSE /\ tty = 0
            /\ baud = 0
            /\ loop = FALSE
            /\ usb_dev = 1
            /\ \E eps \in EndpointLists :
                 /\ usb_inp = FirstBulk(eps, ENDPOINT_IN)
                 /\ usb_out = FirstBulk(eps, ENDPOINT_OUT)
                 /\ usb_inp /= None /\ usb_out /= None
            /\ names \in {"set", "none"}

Next ==
    \/ \E ok \in BOOLEAN : TTYOpen(ok)
    \/ TTYClose
    \/ TTYRead
    \/ \E f \in Chunks, wr \in {"ok", "timeout"} : TTYWrite(f, wr)
    \/ \E b \in Bursts : DeviceSend(b)
    \/ TTYPort
    \/ TTYBaudrate
    \/ \E v \in Bauds : TTYSetBaudrate(v)
    \/ \E w \in Worlds, eps \in EndpointLists : USBOpen(w, eps)
    \/ USBClose
    \/ \E e \in XferOutcomes, n \in PacketSizes : USBRead(e, n)
    \/ \E n \in 0..MaxFrame, e1, e2 \in XferOutcomes : USBWrite(Fill(n), e1, e2)

Spec == Init /\ [][Next]_vars

(* ----------------------- the resolvers' inputs ------------------------- *)
\* entries of a listing
MaxNodes == 3

ACM == <<"A", "C", "M">>

USB == <<"U", "S", "B">>

ttyACM0 == tty_ \o ACM \o <<"0">>

ttyACM1 == tty_ \o ACM \o <<"1">>

ttyACM10 == tty_ \o ACM \o <<"1", "0">>

ttyUSB0 == tty_ \o USB \o <<"0">>

tty1 == tty_ \o <<"1">>

Nodes == {ttyACM0, ttyACM1, ttyACM10, ttyUSB0, tty1}

\* what os.listdir may return: some of the nodes, in any order
Listings ==
    UNION {{l \in [1..n -> Nodes] : \A i, j \in 1..n : i /= j => l[i] /= l[j]} : n \in 0..MaxNodes}

Range(seq) == {seq[i] : i \in 1..Len(seq)}

Selectors == {<<>>, ACM, USB, ACM \o <<"0">>, ACM \o <<"1">>, ACM \o <<"1", "0">>,
              USB \o <<"0">>, <<"0">>, <<"A", "1", "B">>, COM_ \o <<"3">>}

Paths ==
    {k \o c \o sel \o t : k \in {tty_, com_}, c \in {<<":">>, <<>>},
                           sel \in Selectors, t \in {<<>>, <<":", "x">>}}
        \cup {<<"u", "s", "b">>, <<"x">>}

InitFind ==
    /\ kind = "find" /\ tty = 0 /\ baud = 0 /\ rx = <<>> /\ loop = FALSE
    /\ usb_dev = 0 /\ usb_inp = None /\ usb_out = None /\ names = "unset"
    /\ nres = 0 /\ closes = <<>> /\ calls = <<>> /\ ret = NoRet
    /\ path \in Paths
    /\ listing \in Listings
    /\ \/ denied = NoneDenied
       \/ \E fn \in Range(listing) : denied \in {[io |-> {fn}, err |-> {}], [io |-> {}, err |-> {fn}]}
    /\ devices = <<>>
    /\ result = NotCalled

NextFind == TTYFind

SpecFind == InitFind /\ [][NextFind]_vars

(* ------------------------------- claims -------------------------------- *)
\* the resource the handle holds, 0 when it holds none
Held == IF kind = "TTY" THEN tty ELSE usb_dev

Closed == IF kind = "TTY" THEN tty = 0 ELSE usb_dev = 0 /\ usb_inp = None /\ usb_out = None

\* every library read of the last step returned all the bytes it asked for
FullReads == \A i \in 1..Len(calls) : calls[i].fn = "read" => calls[i].got = calls[i].a

\* C1: after any sequence of open/read/write/close calls, on either
\* transport, the only resource that has been acquired and not released is
\* the one the handle holds: open on an open handle releases the resource
\* held before.
C1_NoResourceLeftOpen == \A i \in 1..nres : closes[i] = 0 => i = Held

\* C2: after a USB open that failed, the handle holds no device handle and
\* no IN or OUT endpoint, and no device handle opened on the way is left
\* unreleased.
C2_FailedOpenUnwound ==
    (kind = "USB" /\ ret.op = "open" /\ ret.st = "err")
        => /\ usb_dev = 0 /\ usb_inp = None /\ usb_out = None
           /\ \A i \in 1..Len(calls) : calls[i].fn = "open" /\ calls[i].a /= 0
                                           => closes[calls[i].a] > 0

\* C3: close leaves the handle Closed, no resource is released more than
\* once, and a close on a handle that holds no resource makes no library
\* call and releases nothing.
C3_CloseState == (ret.op = "close" => Closed) /\ (\A i \in 1..nres : closes[i] <= 1)

C3_CloseStep == (ret'.op = "close" /\ Held = 0) => (calls' = <<>> /\ closes' = closes)

C3_CloseIdempotent == [](C3_CloseState) /\ [][C3_CloseStep]_vars

C3_ClosedTwice ==
    ret.op = "close" /\ calls = <<>> /\ Closed /\ \E i \in 1..nres : closes[i] = 1

\* C4 as stated: a normal frame read in full has 4 + LEN + 1 bytes, an
\* extended one 7 + extended_LEN + 1.
C4_SpecLength ==
    (kind = "TTY" /\ ret.op = "read" /\ ret.st = "ok" /\ ~IsAck(ret.frame) /\ FullReads)
        => IF ret.frame[4] /= ESC
           THEN Len(ret.frame) = 4 + ret.frame[4] + 1
           ELSE Len(ret.frame) = 7 + ExtLen(ret.frame) + 1

\* C4 amended: when none of its reads comes up short, TTY.read of a non-ACK
\* frame with LEN < 0xFF reads 6 bytes and then LEN + 1 and returns
\* 6 + LEN + 1 bytes; with LEN = 0xFF it reads 6, 3 and then
\* extended_LEN + 1 bytes and returns 9 + extended_LEN + 1 bytes, where
\* extended_LEN is the big-endian value of the 6th and 7th byte.
C4_FrameLength ==
    (kind = "TTY" /\ ret.op = "read" /\ ret.st = "ok" /\ ~IsAck(ret.frame) /\ FullReads)
        => IF ret.frame[4] /= ESC
           THEN /\ Len(ret.frame) = 6 + ret.frame[4] + 1
                /\ Len(calls) = 2 /\ calls[1].a = 6 /\ calls[2].a = ret.frame[4] + 1
           ELSE /\ Len(ret.frame) = 9 + (ret.frame[6] * 256 + ret.frame[7]) + 1
                /\ Len(calls) = 3 /\ calls[1].a = 6 /\ calls[2].a = 3
                /\ calls[3].a = (ret.frame[6] * 256 + ret.frame[7]) + 1

C4_ExtendedRead ==
    /\ kind = "TTY" /\ ret.op = "read" /\ ret.st = "ok" /\ FullReads
    /\ Len(ret.frame) = 11 /\ ret.frame[4] = ESC /\ rx /= <<>>

\* C5: when the input buffer of an open serial handle starts with the ACK
\* constant, read returns exactly those 6 bytes after one library read and
\* leaves every byte after them in the buffer.
C5_AckStep ==
    (kind = "TTY" /\ tty /= 0 /\ Len(rx) >= 6 /\ SubSeq(rx, 1, 6) = ACK /\ ret'.op = "read")
        => /\ ret'.st = "ok" /\ ret'.frame = ACK
           /\ rx' = SubSeq(rx, 7, Len(rx))
           /\ Len(calls') = 1 /\ calls'[1].a = 6 /\ calls'[1].got = 6

C5_AckRead == [][C5_AckStep]_vars

C5_AckThenMore ==
    kind = "TTY" /\ ~loop /\ ret.op = "read" /\ ret.st = "ok" /\ ret.frame = ACK /\ Len(rx) > 1

\* a frame whose length matches its own header: the ACK constant, or
\* 6 + LEN + 1 bytes (9 + extended_LEN + 1 after the escape) as TTY.read
\* frames them, or 4 + LEN + 1 bytes (7 + extended_LEN + 1) as the wire
\* format is written down
ValidFrame(F) ==
    \/ F = ACK
    \/ /\ Len(F) >= 4 /\ F[4] /= ESC
       /\ Len(F) \in {6 + F[4] + 1, 4 + F[4] + 1}
    \/ /\ Len(F) >= 7 /\ F[4] = ESC
       /\ Len(F) \in {9 + (F[6] * 256 + F[7]) + 1, 7 + (F[6] * 256 + F[7]) + 1}

\* C6: on a loopback line, a read that follows the write of a valid frame F
\* returns exactly F and leaves nothing in the buffer.
C6_RoundTripStep ==
    (kind = "TTY" /\ loop /\ tty /= 0 /\ ret.op = "write" /\ ret.st = "none"
        /\ ValidFrame(ret.frame) /\ ret'.op = "read")
        => (ret'.st = "ok" /\ ret'.frame = ret.frame /\ rx' = <<>>)

C6_RoundTrip == [][C6_RoundTripStep]_vars

C6_ReadBack ==
    /\ kind = "TTY" /\ loop /\ ret.op = "read" /\ ret.st = "ok"
    /\ ret.frame = ExtFrame(1) /\ rx = <<>>

\* C7: USB.write on an open handle writes the whole frame to the OUT
\* endpoint; when that write succeeds and the frame's length is a multiple
\* of the endpoint's max packet size it then makes exactly one zero-length
\* write to the same endpoint, and otherwise makes no further write.
C7_ZeroLengthPacket ==
    (kind = "USB" /\ ret.op = "write" /\ usb_dev /= 0 /\ usb_out /= None)
        => /\ Len(calls) \in {1, 2}
           /\ calls[1].fn = "bulkWrite" /\ calls[1].a = usb_out.addr
           /\ calls[1].b = Len(ret.frame)
           /\ Len(calls) = 2 <=> (calls[1].out = "ok" /\ Len(ret.frame) % usb_out.mps = 0)
           /\ Len(calls) = 2 => /\ calls[2].fn = "bulkWrite" /\ calls[2].a = usb_out.addr
                                /\ calls[2].b = 0

C7_PacketMultiple ==
    /\ kind = "USB" /\ ret.op = "write" /\ ret.st = "none" /\ usb_dev /= 0
    /\ Len(calls) = 2 /\ Len(ret.frame) > 0

\* C8: a USB read whose bulk read ends without error and with zero bytes
\* fails with EIO, and every frame USB.read returns has 1..300 bytes.
C8_NoEmptyFrame ==
    (kind = "USB" /\ ret.op = "read")
        => /\ (calls /= <<>> /\ calls[1].out = "ok" /\ calls[1].got = 0)
                => (ret.st = "err" /\ ret.errno = "EIO")
           /\ ret.st = "ok" => (Len(ret.frame) >= 1 /\ Len(ret.frame) <= 300)

C8_EmptyBulkRead ==
    /\ kind = "USB" /\ ret.op = "read" /\ calls /= <<>>
    /\ calls[1].out = "ok" /\ calls[1].got = 0 /\ ret.errno = "EIO"

\* C9: a serial read whose first library read returns zero bytes fails with
\* ETIMEDOUT, and TTY.read returns no empty frame.
C9_ReadTimeout ==
    (kind = "TTY" /\ ret.op = "read")
        => /\ (calls /= <<>> /\ calls[1].got = 0)
                => (ret.st = "err" /\ ret.errno = "ETIMEDOUT")
           /\ ret.st = "ok" => ret.frame /= <<>>

C9_NothingArrived ==
    /\ kind = "TTY" /\ tty /= 0 /\ ret.op = "read" /\ ret.errno = "ETIMEDOUT"
    /\ calls /= <<>> /\ calls[1].got = 0

\* the path, with or without a second selector
PathIs(str) == path = str \/ path = str \o <<":", "x">>

Listed(nodes) == Range(listing) \cap nodes

InDev(nodes) == {dev_ \o fn : fn \in nodes}

\* C10: with every node accessible, "tty:<name><digits>" resolves to exactly
\* the node of that name, not as a wildcard; "tty:<name>" to all listed
\* nodes tty<name><digits>, as a wildcard; "tty" to all listed nodes with
\* name S, ACM, AMA or USB, as a wildcard.
C10_TtyResolution ==
    (result.st /= "init" /\ denied = NoneDenied)
        => /\ \A fn \in {ttyACM0, ttyACM1, ttyACM10, ttyUSB0} :
                (PathIs(tty_ \o <<":">> \o SubSeq(fn, 4, Len(fn))) /\ fn \in Range(listing))
                    => /\ result.st = "ok" /\ result.ttys = <<dev_ \o fn>>
                       /\ result.glob = FALSE
           /\ (PathIs(tty_ \o <<":">> \o ACM) /\ Listed({ttyACM0, ttyACM1, ttyACM10}) /= {})
                => /\ result.st = "ok" /\ result.glob = TRUE
                   /\ Range(result.ttys) = InDev(Listed({ttyACM0, ttyACM1, ttyACM10}))
                   /\ Len(result.ttys) = Cardinality(Listed({ttyACM0, ttyACM1, ttyACM10}))
           /\ (PathIs(tty_ \o <<":">> \o USB) /\ Listed({ttyUSB0}) /= {})
                => /\ result.st = "ok" /\ result.glob = TRUE
                   /\ result.ttys = <<dev_ \o ttyUSB0>>
           /\ (path \in {tty_, tty_ \o <<":">>, tty_ \o <<":", ":", "x">>}
                    /\ Listed(Nodes \ {tty1}) /= {})
                => /\ result.st = "ok" /\ result.glob = TRUE
                   /\ Range(result.ttys) = InDev(Listed(Nodes \ {tty1}))
                   /\ Len(result.ttys) = Cardinality(Listed(Nodes \ {tty1}))

C10_BareName ==
    /\ path = tty_ \o <<":">> \o ACM /\ denied = NoneDenied
    /\ Range(listing) = {ttyACM0, ttyACM1, ttyUSB0}
    /\ result.st = "ok" /\ result.glob /\ Len(result.ttys) = 2

\* the one node whose open() fails with an IOError
IoDenied(fn) == denied = [io |-> {fn}, err |-> {}]

\* C11: a matching node whose probe fails with an IOError is left out of the
\* result, without an error, when the selector is a bare name or empty, and
\* the nodes that can be probed are still returned; when the selector names
\* that one node, find raises the IOError.
C11_AccessError ==
    result.st /= "init"
        => \A fn \in Range(listing) \cap {ttyACM0, ttyACM1, ttyACM10, ttyUSB0} :
             IoDenied(fn)
                => /\ PathIs(tty_ \o <<":">> \o SubSeq(fn, 4, Len(fn))) => result.st = "IOError"
                   /\ (PathIs(tty_ \o <<":">> \o SubSeq(fn, 4, 6))
                          \/ path \in {tty_, tty_ \o <<":">>, tty_ \o <<":", ":", "x">>})
                        => /\ result.st = "ok" /\ result.glob
                           /\ fn \notin Range(result.ttys)
                           /\ dev_ \o fn \notin Range(result.ttys)
                           /\ Range(result.ttys) =
                                InDev(Listed(IF path \in {tty_, tty_ \o <<":">>, tty_ \o <<":", ":", "x">>}
                                             THEN Nodes \ {tty1}
                                             ELSE {n \in Nodes \ {tty1} : SubSeq(n, 4, 6) = SubSeq(fn, 4, 6)})
                                      \ {fn})

C11_DroppedSilently ==
    /\ path = tty_ \o <<":">> \o ACM /\ IoDenied(ttyACM0)
    /\ Range(listing) = {ttyACM0, ttyACM1}
    /\ result.st = "ok" /\ result.ttys = <<dev_ \o ttyACM1>>

(* ----------------------- the order of the result ----------------------- *)
\* nodes whose numbers have one to four digits, under two names
SortNodes == {tty_ \o ACM \o <<"2">>, tty_ \o ACM \o <<"1", "0">>,
              tty_ \o ACM \o <<"9", "9", "9">>, tty_ \o ACM \o <<"1", "0", "0", "0">>,
              tty_ \o USB \o <<"0">>}

SortListings ==
    UNION {{l \in [1..n -> SortNodes] : \A i, j \in 1..n : i /= j => l[i] /= l[j]} : n \in 0..MaxNodes}

InitSort ==
    /\ kind = "find" /\ tty = 0 /\ baud = 0 /\ rx = <<>> /\ loop = FALSE
    /\ usb_dev = 0 /\ usb_inp = None /\ usb_out = None /\ names = "unset"
    /\ nres = 0 /\ closes = <<>> /\ calls = <<>> /\ ret = NoRet
    /\ path \in {tty_, tty_ \o <<":">> \o ACM, tty_ \o <<":">> \o USB, tty_ \o <<":">> \o ACM \o <<":", "x">>}
    /\ listing \in SortListings
    /\ \/ denied = NoneDenied
       \/ \E fn \in Range(listing) : denied \in {[io |-> {fn}, err |-> {}], [io |-> {}, err |-> {fn}]}
    /\ devices = <<>>
    /\ result = NotCalled

SpecSort == InitSort /\ [][NextFind]_vars

\* the number a string of digits writes
RECURSIVE NumVal(_)
NumVal(ds) ==
    IF ds = <<>> THEN 0 ELSE 10 * NumVal(SubSeq(ds, 1, Len(ds) - 1)) + (Ord(ds[Len(ds)]) - Ord("0"))

\* the digits a node name ends with
Suffix(fn) == SubSeq(fn, Run(fn, 1, NonDigits) + 1, Len(fn))

\* C12: the list find returns is in ascending order of the number each node
\* name ends with, whatever the names before the numbers and however many
\* digits the numbers have.
C12_NumericOrder ==
    result.st = "ok"
        => \A i, j \in 1..Len(result.ttys) :
             i < j => NumVal(Suffix(result.ttys[i])) <= NumVal(Suffix(result.ttys[j]))

\* the same, for the nodes of one name: what the sort key is meant to give
C12_SameNameOrder ==
    (result.st = "ok" /\ PathIs(tty_ \o <<":">> \o ACM))
        => \A i, j \in 1..Len(result.ttys) :
             i < j => NumVal(Suffix(result.ttys[i])) <= NumVal(Suffix(result.ttys[j]))

(* ------------------------- USB.find's inputs --------------------------- *)
\* devices the host lists at once
MaxDevs == 2

\* 0x054c = 1356, 0x0193 = 403
SONY == 1356

RCS380 == 403

UsbDevices == {Device(SONY, RCS380, 1, 2), Device(SONY, 2, 1, 3), Device(SONY, RCS380, 2, 2),
               Device(1, RCS380, 1, 4), Device(1, 2, 3, 1)}

DeviceLists ==
    UNION {{l \in [1..n -> UsbDevices] : \A i, j \in 1..n : i /= j => l[i] /= l[j]} : n \in 0..MaxDevs}

\* "054c", "054C", "0193", "0001"
h054c == <<"0", "5", "4", "c">>

h054C == <<"0", "5", "4", "C">>

h0193 == <<"0", "1", "9", "3">>

h0001 == <<"0", "0", "0", "1">>

UsbPaths ==
    {usb_,
     usb_ \o <<":">> \o h054c, usb_ \o <<":">> \o h054C,
     usb_ \o <<":">> \o h054c \o <<":">> \o h0193,
     usb_ \o <<":">> \o h0001,
     usb_ \o <<":", "1">>, usb_ \o <<":", "0", "0", "1">>, usb_ \o <<":", "1", ":", "2">>,
     usb_ \o <<":", "2", ":", "0", "0", "2">>,
     usb_ \o <<":">>, usb_ \o <<":">> \o h054c \o <<":", "1">>, usb_ \o <<":", "1", ":">> \o h054c,
     usb_ \o <<"1">>, usb_ \o <<":", "0", "5", "4">>, usb_ \o <<":", "x">>,
     tty_, <<"u", "s">>}

InitUsbFind ==
    /\ kind = "find" /\ tty = 0 /\ baud = 0 /\ rx = <<>> /\ loop = FALSE
    /\ usb_dev = 0 /\ usb_inp = None /\ usb_out = None /\ names = "unset"
    /\ nres = 0 /\ closes = <<>> /\ calls = <<>> /\ ret = NoRet
    /\ path \in UsbPaths
    /\ listing = <<>> /\ denied = NoneDenied
    /\ devices \in DeviceLists
    /\ result = NotCalled

NextUsbFind == USBFind

SpecUsbFind == InitUsbFind /\ [][NextUsbFind]_vars

\* the present devices, as tuples, that satisfy keep, in the order listed
Kept(keep(_)) ==
    LET ds == SelectSeq(devices, keep) IN [i \in 1..Len(ds) |-> Tuple(ds[i])]

\* C13: USB.find returns, in the order the host lists them, the tuples of
\* exactly the devices that agree with every field the path gives:
\* "usb:VVVV:PPPP" vendor and product, "usb:VVVV" the vendor, "usb:B" the bus,
\* "usb:B:A" bus and address, "usb" every device.
C13_UsbFilter ==
    result.st /= "init"
        => LET vp(d) == d.vid = SONY /\ d.pid = RCS380
               v(d) == d.vid = SONY
               v1(d) == d.vid = 1
               b(d) == d.bus = 1
               ba(d) == d.bus = 1 /\ d.adr = 2
               ba2(d) == d.bus = 2 /\ d.adr = 2
               all(d) == TRUE
               is(str, keep(_)) == path = str => (result.st = "ok" /\ result.devs = Kept(keep))
           IN  /\ is(usb_ \o <<":">> \o h054c \o <<":">> \o h0193, vp)
               /\ is(usb_ \o <<":">> \o h054c, v)
               /\ is(usb_ \o <<":">> \o h054C, v)
               /\ is(usb_ \o <<":">> \o h0001, v1)
               /\ is(usb_ \o <<":", "1">>, b)
               /\ is(usb_ \o <<":", "0", "0", "1">>, b)
               /\ is(usb_ \o <<":", "1", ":", "2">>, ba)
               /\ is(usb_ \o <<":", "2", ":", "0", "0", "2">>, ba2)
               /\ is(usb_, all)

C13_VendorProduct ==
    /\ path = usb_ \o <<":">> \o h054c \o <<":">> \o h0193
    /\ devices = <<Device(SONY, 2, 1, 3), Device(SONY, RCS380, 2, 2)>>
    /\ result.st = "ok" /\ result.devs = <<<<SONY, RCS380, 2, 2>>>>

\* the library call the last step ended with
LastCall == calls[Len(calls)]

\* C14: on an open USB handle, a read or write whose bulk transfer fails
\* raises ETIMEDOUT for a timeout, ENODEV for a vanished device and EIO for
\* any other transfer error, the same for write (either of its two
\* transfers) as for read, and a read or write that raises nothing made
\* only transfers that succeeded.
C14_TransferErrors ==
    (kind = "USB" /\ ret.op \in {"read", "write"} /\ usb_dev /= 0 /\ calls /= <<>>)
        => /\ \A i \in 1..(Len(calls) - 1) : calls[i].out = "ok"
           /\ LastCall.out = "timeout" => (ret.st = "err" /\ ret.errno = "ETIMEDOUT")
           /\ LastCall.out = "nodev" => (ret.st = "err" /\ ret.errno = "ENODEV")
           /\ LastCall.out \notin {"ok", "timeout", "nodev"} => (ret.st = "err" /\ ret.errno = "EIO")
           /\ ret.st \in {"ok", "none", "err"}
           /\ ret.st = "err" => ret.errno \in {"ETIMEDOUT", "ENODEV", "EIO"}
           /\ ret.st /= "err" => LastCall.out = "ok"

C14_SecondWriteTimeout ==
    /\ kind = "USB" /\ ret.op = "write" /\ usb_dev /= 0 /\ Len(calls) = 2
    /\ LastCall.out = "timeout" /\ ret.st = "err" /\ ret.errno = "ETIMEDOUT"

\* the last step was a USB.open that got as far as reading the descriptor
\* strings, and that read ended as out
DescriptorRead(out) ==
    /\ kind = "USB" /\ ret.op = "open"
    /\ \E i \in 1..Len(calls) : calls[i].fn = "getManufacturer" /\ calls[i].out = out

\* C15: USB.open raises ENODEV when no device matches or a bulk IN or bulk
\* OUT endpoint is missing; a failure of dev.open() or claimInterface(0)
\* raises EACCES for a permission failure, EBUSY for a busy device and ENODEV
\* for a vanished one; a failure to read the descriptor strings leaves both
\* names absent and does not fail the open.
C15_OpenErrors ==
    (kind = "USB" /\ ret.op = "open")
        => /\ (usb_inp = None \/ usb_out = None) => (ret.st = "err" /\ ret.errno = "ENODEV")
           /\ (calls /= <<>> /\ LastCall.fn \in {"open", "claimInterface"})
                => /\ LastCall.out = "access" => (ret.st = "err" /\ ret.errno = "EACCES")
                   /\ LastCall.out = "busy" => (ret.st = "err" /\ ret.errno = "EBUSY")
                   /\ LastCall.out = "nodev" => (ret.st = "err" /\ ret.errno = "ENODEV")
           /\ (\E o \in {"io", "other"} : DescriptorRead(o))
                => /\ names = "none"
                   /\ ret.st = "err" => (LastCall.fn /= "getManufacturer" /\ LastCall.out /= "ok")

\* the same with the descriptor failure narrowed to the one USB.open
\* catches, USBErrorIO
C15_OpenErrorsIO ==
    (kind = "USB" /\ ret.op = "open")
        => /\ (usb_inp = None \/ usb_out = None) => (ret.st = "err" /\ ret.errno = "ENODEV")
           /\ (calls /= <<>> /\ LastCall.fn \in {"open", "claimInterface"})
                => /\ LastCall.out = "access" => (ret.st = "err" /\ ret.errno = "EACCES")
                   /\ LastCall.out = "busy" => (ret.st = "err" /\ ret.errno = "EBUSY")
                   /\ LastCall.out = "nodev" => (ret.st = "err" /\ ret.errno = "ENODEV")
           /\ DescriptorRead("io")
                => /\ names = "none"
                   /\ ret.st = "err" => (LastCall.fn /= "getManufacturer" /\ LastCall.out /= "ok")

\* kind[:selector[:selector2]] with kind tty, com or usb and selectors of
\* letters and digits, each behind a colon
WellFormed(str) ==
    \E k \in {tty_, com_, usb_} :
        /\ StartsWith(str, k)
        /\ LET r == SubSeq(str, 4, Len(str))
               n1 == Run(r, 2, Alnum)
           IN  \/ r = <<>>
               \/ /\ r[1] = ":"
                  /\ \/ Len(r) = 1 + n1
                     \/ /\ Len(r) > 1 + n1
                        /\ r[2 + n1] = ":"
                        /\ Run(r, 3 + n1, Alnum) = Len(r) - 2 - n1

\* C16: a path that is not of the form kind[:selector[:selector2]] gets no
\* match from TTY.find: it returns None, and raises nothing.
C16_Grammar == (result.st /= "init" /\ ~WellFormed(path)) => result.st = "none"

(* ------------------- settings with more endpoints ---------------------- *)
\* endpoints of a first setting that lists an endpoint of a direction twice
MaxSetting == 3

SettingLists ==
    UNION {{e \in [1..n -> Endpoints] : \A i, j \in 1..n : i /= j => e[i] /= e[j]} : n \in 0..MaxSetting}

InitUsb == Init /\ kind = "USB"

NextUsb ==
    \/ \E eps \in SettingLists, d \in {"ok", "io"} : USBOpen(World(TRUE, TRUE, d, "ok", "ok"), eps)
    \/ USBClose
    \/ \E e \in XferOutcomes, n \in PacketSizes : USBRead(e, n)
    \/ \E n \in 0..MaxFrame, e1, e2 \in XferOutcomes : USBWrite(Fill(n), e1, e2)

SpecUsb == InitUsb /\ [][NextUsb]_vars

\* e is at a position of eps before which eps has no bulk endpoint of
\* direction dir, and is one itself
IsFirstBulk(eps, e, dir) ==
    \E i \in 1..Len(eps) :
        /\ eps[i] = e
        /\ e.attr % 4 = 2 /\ (IF e.addr >= 128 THEN 128 ELSE 0) = dir
        /\ \A j \in 1..(i - 1) :
              ~(eps[j].attr % 4 = 2 /\ (IF eps[j].addr >= 128 THEN 128 ELSE 0) = dir)

\* C17: after an open that succeeded, usb_inp is the first bulk IN endpoint
\* and usb_out the first bulk OUT endpoint the first setting lists, and no
\* read or write changes either.
C17_EndpointsState ==
    (kind = "USB" /\ ret.op = "open" /\ ret.st = "ok" /\ calls /= <<>>)
        => /\ IsFirstBulk(calls[1].a, usb_inp, 128)
           /\ IsFirstBulk(calls[1].a, usb_out, 0)

C17_EndpointsStep ==
    (kind = "USB" /\ ret'.op \in {"read", "write"}) => (usb_inp' = usb_inp /\ usb_out' = usb_out)

C17_FirstEndpoints == [](C17_EndpointsState) /\ [][C17_EndpointsStep]_vars

C17_LaterDuplicate ==
    /\ kind = "USB" /\ ret.op = "open" /\ ret.st = "ok" /\ calls /= <<>>
    /\ calls[1].a = <<EP(130, 2, 3), EP(129, 2, 2), EP(1, 2, 2)>>
    /\ usb_inp = EP(130, 2, 3) /\ usb_out = EP(1, 2, 2)

\* C18: TTY.write on an open port calls flushInput() and then write() with
\* the whole frame; afterwards the input buffer holds nothing that was in it
\* before (on a loopback line the frame just written, else nothing), so a
\* read that follows the write returns none of it; a write that times out
\* raises EIO.
C18_WriteStep ==
    (kind = "TTY" /\ tty /= 0 /\ ret'.op = "write")
        => /\ Len(calls') = 2
           /\ calls'[1].fn = "flushInput" /\ calls'[2].fn = "write"
           /\ calls'[2].a = Len(ret'.frame)
           /\ rx' = (IF loop /\ calls'[2].out = "ok" THEN ret'.frame ELSE <<>>)
           /\ calls'[2].out = "timeout" <=> (ret'.st = "err" /\ ret'.errno = "EIO")

C18_ReadStep ==
    (kind = "TTY" /\ tty /= 0 /\ ~loop /\ ret.op = "write" /\ ret'.op = "read")
        => (ret'.frame = <<>> /\ ret'.st = "err" /\ ret'.errno = "ETIMEDOUT")

C18_FlushBeforeWrite == [][C18_WriteStep /\ C18_ReadStep]_vars

C18_WriteTimedOut ==
    /\ kind = "TTY" /\ tty /= 0 /\ ~loop /\ ret.op = "write" /\ ret.frame /= <<>>
    /\ Len(calls) = 2 /\ calls[1].fn = "flushInput" /\ calls[2].out = "timeout"
    /\ ret.st = "err" /\ ret.errno = "EIO" /\ rx = <<>>

\* C19: a TTY.read during which a library read returns fewer bytes than asked
\* for ends in an IOError of the taxonomy: it returns no frame shorter than
\* its header declares (4 + LEN + 1 bytes at the least, 7 + extended_LEN + 1
\* after the escape) and raises nothing else.
C19_ShortReadSurfaced ==
    (kind = "TTY" /\ ret.op = "read" /\ tty /= 0)
        => /\ ret.st \in {"ok", "err"}
           /\ ret.st = "err" => ret.errno \in {"ETIMEDOUT", "EIO", "ENODEV", "EACCES", "EBUSY"}
           /\ (ret.st = "ok" /\ ~FullReads) => FALSE
           /\ (ret.st = "ok" /\ ret.frame /= ACK)
                => /\ Len(ret.frame) >= 4
                   /\ IF ret.frame[4] /= ESC
                      THEN Len(ret.frame) >= 4 + ret.frame[4] + 1
                      ELSE /\ Len(ret.frame) >= 7
                           /\ Len(ret.frame) >= 7 + (ret.frame[6] * 256 + ret.frame[7]) + 1

\* C20: on a Closed handle read and write call nothing, change nothing of
\* the handle, raise nothing and return no frame; on a Closed serial handle
\* baudrate reads 0, port reads the empty string and setting baudrate
\* changes nothing.
C20_ClosedStep ==
    Closed
        => /\ ret'.op \in {"read", "write"}
                => /\ calls' = <<>> /\ ret'.st = "none"
                   /\ ret'.op = "read" => ret'.frame = <<>>
                   /\ UNCHANGED <<tty, baud, rx, usb_dev, usb_inp, usb_out, nres, closes>>
           /\ ret'.op = "baudrate" => ret'.frame = <<0>>
           /\ ret'.op = "port" => ret'.frame = <<>>
           /\ ret'.op = "set_baudrate"
                => /\ calls' = <<>>
                   /\ UNCHANGED <<tty, baud, rx, nres, closes>>

C20_ClosedNoOp == [][C20_ClosedStep]_vars

C20_ClosedBaudrate ==
    /\ kind = "TTY" /\ tty = 0 /\ closes[1] = 1
    /\ ret.op = "baudrate" /\ ret.frame = <<0>>

====
